---- MODULE Spec2Model ----
(***************************************************************************)
(* WebCut browser extension: the popup (Capture Orchestrator, popup.js),   *)
(* the content script (Page Capture Engine, content.js) and the service    *)
(* worker (Privileged Relay, background.js).                               *)
(*                                                                         *)
(* Texts are sequences of one-character strings, so that substring(),      *)
(* includes() and concatenation are computed as the code computes them.    *)
(* The user-facing literals of the source are Chinese; they are written    *)
(* here in ASCII, each with the source literal in its comment.             *)
(***************************************************************************)
EXTENDS Naturals, Integers, Sequences, FiniteSets, TLC

\* ------------------------------------------------------------------ bounds
MaxClicks == 2      \* capture clicks in one behaviour
MaxCanvases == 1    \* canvas elements of the page
MaxImages == 2      \* img elements of the page
MaxPad == 101       \* longest run of filler characters in a response body
MaxSaves == 1       \* save-configuration clicks in one behaviour

\* -------------------------------------------------------- program constants
BodyLimit == 100        \* errorData.substring(0, 100)
MinImageSize == 300     \* naturalWidth >= 300 && naturalHeight >= 300
HttpOkLow == 200        \* Response.ok: 200..299
HttpOkHigh == 299
HttpMethodNotAllowed == 405

\* the value undefined; no text is this one-element sequence
Undefined == <<"undefined">>

\* ------------------------------------------------------------------- texts
RECURSIVE Rep(_, _)
Rep(ch, n) == IF n = 0 THEN <<>> ELSE <<ch>> \o Rep(ch, n - 1)

\* String.prototype.substring(0, n)
Substring0(s, n) == SubSeq(s, 1, IF Len(s) < n THEN Len(s) ELSE n)

\* String.prototype.includes(t)
Includes(s, t) ==
  \E k \in 0..(Len(s) - Len(t)) : SubSeq(s, k + 1, k + Len(t)) = t

\* String.prototype.startsWith(t)
StartsWith(s, t) == Len(s) >= Len(t) /\ SubSeq(s, 1, Len(t)) = t

Digit(d) == CASE d = 0 -> "0" [] d = 1 -> "1" [] d = 2 -> "2" [] d = 3 -> "3"
              [] d = 4 -> "4" [] d = 5 -> "5" [] d = 6 -> "6" [] d = 7 -> "7"
              [] d = 8 -> "8" [] d = 9 -> "9"

\* number -> decimal text, as a template literal `${n}` renders it
RECURSIVE NumToStr(_)
NumToStr(n) == IF n < 10 THEN <<Digit(n)>> ELSE NumToStr(n \div 10) \o <<Digit(n % 10)>>

\* 'Failed to fetch'
FailedToFetch == <<"F","a","i","l","e","d"," ","t","o"," ","f","e","t","c","h">>
\* 'NetworkError'
NetworkError == <<"N","e","t","w","o","r","k","E","r","r","o","r">>
\* "server error"
ServerError == <<"s","e","r","v","e","r"," ","e","r","r","o","r">>
\* a rejection text that names neither marker (e.g. 'Load failed')
LoadFailed == <<"L","o","a","d"," ","f","a","i","l","e","d">>

\* the texts popup.js shows
Msg ==
  [
    \* '请先配置 User ID'
    NoUserId |-> <<"s","e","t"," ","U","s","e","r"," ","I","D">>,
    \* '正在处理 DOM...'
    Dom |-> <<"D","O","M",".",".",".">>,
    \* '无法获取当前标签页'
    NoTab |-> <<"n","o"," ","t","a","b">>,
    \* '正在提取图表...'
    Extract |-> <<"c","h","a","r","t","s",".",".",".">>,
    \* '无法与页面通信，请刷新页面后重试'
    NoComm |-> <<"n","o"," ","p","a","g","e">>,
    \* '未收到采集结果'
    NoResult |-> <<"n","o"," ","r","e","s","u","l","t">>,
    \* '采集失败'
    CapFail |-> <<"c","a","p","t","u","r","e"," ","f","a","i","l","e","d">>,
    \* '正在上传数据...'
    Upload |-> <<"u","p","l","o","a","d",".",".",".">>,
    \* '上传失败'
    UploadFail |-> <<"u","p","l","o","a","d"," ","f","a","i","l","e","d">>,
    \* '无法发送数据到后台服务: '
    NoBackend |-> <<"n","o"," ","w","o","r","k","e","r",":"," ">>,
    \* '采集失败: '
    CaptureFailed |-> <<"c","a","p","t","u","r","e",":"," ">>,
    \* '请输入 API Endpoint'
    EnterEndpoint |-> <<"e","n","t","e","r"," ","e","n","d","p","o","i","n","t">>,
    \* '请输入 User ID'
    EnterUserId |-> <<"e","n","t","e","r"," ","u","s","e","r"," ","i","d">>,
    \* 'API Endpoint 格式不正确'
    BadEndpoint |-> <<"b","a","d"," ","e","n","d","p","o","i","n","t">>,
    \* '配置已保存'
    Saved |-> <<"s","a","v","e","d">>,
    \* '保存配置失败: '
    SaveFailed |-> <<"s","a","v","e"," ","f","a","i","l","e","d",":"," ">>,
    \* '加载配置失败: '
    LoadFailed |-> <<"l","o","a","d"," ","f","a","i","l","e","d",":"," ">>,
    \* '已连接'
    Connected |-> <<"c","o","n","n","e","c","t","e","d">>,
    \* '连接未知（请检查后端服务是否运行）'
    ConnUnknown |-> <<"u","n","k","n","o","w","n">>,
    \* '连接失败'
    ConnFailed |-> <<"f","a","i","l","e","d">>,
    \* '连接失败: '
    ConnFailedColon |-> <<"f","a","i","l","e","d",":"," ">> ]

\* the error texts of content.js and background.js, and of the browser
Err ==
  [
    \* '采集数据时出错: '
    CaptureData |-> <<"d","a","t","a",":"," ">>,
    \* 'API 返回错误 ('
    ApiError |-> <<"A","P","I"," ","e","r","r"," ","(">>,
    \* '无法读取错误信息'
    Unreadable |-> <<"u","n","r","e","a","d","a","b","l","e">>,
    \* '无法连接到 API，请检查：...'
    CannotConnect |-> <<"c","a","n","n","o","t"," ","c","o","n","n","e","c","t">>,
    \* message of the TypeError raised by document.documentElement.outerHTML on a
    \* document without a root element
    NoRoot |-> <<"n","o"," ","r","o","o","t">>,
    \* message of the SecurityError raised by toDataURL on a tainted canvas
    Tainted |-> <<"t","a","i","n","t","e","d">> ]

\* `上传成功！已采集 ${n} 个资源`
MsgUploaded(n) == <<"o","k"," ">> \o NumToStr(n)


\* '-'
Dash == <<"-">>

\* 'http://localhost:8000/api/ingest/extension'
DEFAULT_API_ENDPOINT ==
  <<"h","t","t","p",":","/","/","l","o","c","a","l","h","o","s","t",":","8","0","0","0">>
    \o <<"/","a","p","i","/","i","n","g","e","s","t","/","e","x","t","e","n","s","i","o","n">>

VARIABLES
  progressText,   \* popup: #progressText  [textContent, hidden]
  errorText,      \* popup: #errorText
  successText,    \* popup: #successText
  storage,        \* chrome.storage.local  [apiEndpoint, userId]
  click,          \* popup: one capture click handler per click
  injected,       \* page: how many times content.js has run (listeners added)
  page,           \* page: the document
  img,            \* page: the img elements' load state and handlers
  run,            \* page: one capturePageData run per (message, listener)
  chan,           \* the response channel of each capture message
  timers,         \* page: pending setTimeout callbacks
  api,            \* worker: one sendToApi call per upload message
  probe,          \* worker: the checkApiStatus call
  form,           \* popup: #apiEndpoint, #userId, #currentEndpoint, #currentUserId
  statusIndicator, \* popup: #statusIndicator (className)
  statusText,     \* popup: #statusText (textContent)
  load,           \* popup: the DOMContentLoaded handler
  save,           \* popup: one saveConfigBtn click handler per click
  check           \* popup: one checkApiStatus call per caller

feedback == <<progressText, errorText, successText>>
popupVars == <<progressText, errorText, successText, storage, click>>
pageVars == <<injected, page, img, run, chan, timers>>
relayVars == <<api, probe>>
configVars == <<form, statusIndicator, statusText, load, save, check>>
vars == <<progressText, errorText, successText, storage, click,
          injected, page, img, run, chan, timers, api, probe,
          form, statusIndicator, statusText, load, save, check>>

Clicks == 1..MaxClicks

\* ------------------------------------------------------ the status display
showProgress(message) ==
  /\ progressText' = [textContent |-> message, hidden |-> FALSE]
  /\ errorText' = [errorText EXCEPT !.hidden = TRUE]
  /\ successText' = [successText EXCEPT !.hidden = TRUE]

\* (mutant) showError that leaves the success text as it is
showErrorKeepsSuccess(message) ==
  /\ errorText' = [textContent |-> message, hidden |-> FALSE]
  /\ successText' = successText
  /\ progressText' = [progressText EXCEPT !.hidden = TRUE]

showError(message) ==
  /\ errorText' = [textContent |-> message, hidden |-> FALSE]
  /\ successText' = [successText EXCEPT !.hidden = TRUE]
  /\ progressText' = [progressText EXCEPT !.hidden = TRUE]

showSuccess(message) ==
  /\ successText' = [textContent |-> message, hidden |-> FALSE]
  /\ errorText' = [errorText EXCEPT !.hidden = TRUE]
  /\ progressText' = [progressText EXCEPT !.hidden = TRUE]

clearFeedback ==
  /\ progressText' = [textContent |-> <<>>, hidden |-> TRUE]
  /\ errorText' = [textContent |-> <<>>, hidden |-> TRUE]
  /\ successText' = [textContent |-> <<>>, hidden |-> TRUE]


\* --------------------------------------------------- the serialized document
\* window.location: 'https://h/p?q#f' and 'http://h:8080/'
Locations ==
  { [protocol |-> <<"h","t","t","p","s",":">>, host |-> <<"h">>, hostname |-> <<"h">>,
     pathname |-> <<"/","p">>, search |-> <<"?","q">>, hash |-> <<"#","f">>],
    [protocol |-> <<"h","t","t","p",":">>, host |-> <<"h",":","8","0","8","0">>, hostname |-> <<"h">>,
     pathname |-> <<"/">>, search |-> <<>>, hash |-> <<>>] }
Location1 == CHOOSE l \in Locations : l.search # <<>>

\* window.location.href
href(location) ==
  location.protocol \o <<"/","/">> \o location.host \o location.pathname
    \o location.search \o location.hash

\* document.documentElement.outerHTML is made of a root opening tag, the head
\* part, the body part and the root closing tag.
\* '<html>', '<html lang="en">'
RootTags == { <<"<","h","t","m","l",">">>,
              <<"<","h","t","m","l"," ","l","a","n","g","=","\"","e","n","\"",">">> }
\* no head element (removed by a script), '<head></head>', '<head id="h"></head>',
\* '<HEAD></HEAD>' (an XML document), '<head><base href="/b/"></head>',
\* '<head><BASE target="_top"></head>'
HeadParts ==
  { <<>>,
    <<"<","h","e","a","d",">","<","/","h","e","a","d",">">>,
    <<"<","h","e","a","d"," ","i","d","=","\"","h","\"",">","<","/","h","e","a","d",">">>,
    <<"<","H","E","A","D",">","<","/","H","E","A","D",">">>,
    <<"<","h","e","a","d",">","<","b","a","s","e"," ","h","r","e","f","=","\"","/","b","/","\"",">","<","/","h","e","a","d",">">>,
    <<"<","h","e","a","d",">","<","B","A","S","E"," ","t","a","r","g","e","t","=","\"","_","t","o","p","\"",">","<","/","h","e","a","d",">">> }
\* '<body></body>', '<body><header>x</header></body>',
\* '<body><base-x></base-x></body>' (a custom element),
\* '<body><basefont size="2"></body>', '<body><base href="/c/"></body>'
BodyParts ==
  { <<"<","b","o","d","y",">","<","/","b","o","d","y",">">>,
    <<"<","b","o","d","y",">","<","h","e","a","d","e","r",">","x","<","/","h","e","a","d","e","r",">","<","/","b","o","d","y",">">>,
    <<"<","b","o","d","y",">","<","b","a","s","e","-","x",">","<","/","b","a","s","e","-","x",">","<","/","b","o","d","y",">">>,
    <<"<","b","o","d","y",">","<","b","a","s","e","f","o","n","t"," ","s","i","z","e","=","\"","2","\"",">","<","/","b","o","d","y",">">>,
    <<"<","b","o","d","y",">","<","b","a","s","e"," ","h","r","e","f","=","\"","/","c","/","\"",">","<","/","b","o","d","y",">">> }
RootEnd == <<"<","/","h","t","m","l",">">>
\* '<svg></svg>': a document whose root is not an html element
SvgDocument == <<"<","s","v","g",">","<","/","s","v","g",">">>

Documents ==
  { root \o head \o body \o RootEnd :
      root \in RootTags, head \in HeadParts, body \in BodyParts } \cup {SvgDocument}

\* the document of a page whose markup does not matter (the markup of its canvas
\* and img elements is left out)
PlainDocument == <<"<","h","t","m","l",">","<","h","e","a","d",">","<","/","h","e","a","d",">","<","b","o","d","y",">","<","/","b","o","d","y",">","<","/","h","t","m","l",">">>

\* ------------------------------------------------------------ the document
\* 'data:image/'
DataImagePrefix == <<"d","a","t","a",":","i","m","a","g","e","/">>
\* an inline image source, and a remote one
InlineSrc == DataImagePrefix \o <<"p","n","g",";","A">>
RemoteSrc == <<"h","t","t","p","s",":","/","/","h","/","a",".","p","n","g">>
Srcs == {InlineSrc, RemoteSrc}

\* canvas elements: an ordinary chart, the two zero-dimension shapes, and a
\* canvas tainted by cross-origin data (toDataURL raises SecurityError)
CanvasElems ==
  { [width |-> 800, height |-> 400, tainted |-> FALSE],
    [width |-> 0,   height |-> 400, tainted |-> FALSE],
    [width |-> 800, height |-> 0,   tainted |-> FALSE],
    [width |-> 800, height |-> 400, tainted |-> TRUE] }

\* natural sizes of an image that has loaded, and of a broken one
LoadedSizes == { <<299, 300>>, <<300, 299>>, <<320, 320>> }
BrokenSize == <<0, 0>>

SeqsUpTo(S, n) == UNION { [1..k -> S] : k \in 0..n }

\* a document without a root element has no elements at all
NoRootPage == [hasRoot |-> FALSE, canvases |-> <<>>, images |-> <<>>,
               outerHTML |-> <<>>, location |-> Location1]
Pages ==
  { [hasRoot |-> TRUE, canvases |-> cs, images |-> is,
     outerHTML |-> PlainDocument, location |-> Location1] :
      cs \in SeqsUpTo(CanvasElems, MaxCanvases), is \in SeqsUpTo(Srcs, MaxImages) }
  \cup { NoRootPage }

\* pages whose markup and location vary, without canvas or img elements
SnapshotPages ==
  { [hasRoot |-> TRUE, canvases |-> <<>>, images |-> <<>>,
     outerHTML |-> d, location |-> l] : d \in Documents, l \in Locations }

Listeners == 1..MaxClicks
Runs == Clicks \X Listeners
NoRun == <<0, 0>>

ImgLoading == [complete |-> FALSE, size |-> BrokenSize, onload |-> NoRun, onerror |-> NoRun]
ImgComplete(sz) == [complete |-> TRUE, size |-> sz, onload |-> NoRun, onerror |-> NoRun]
ImgStates == {ImgLoading} \cup { ImgComplete(sz) : sz \in LoadedSizes \cup {BrokenSize} }

\* what a call yields besides an asset: null, or a raised exception
Null == [type |-> "null"]
Throw == [type |-> "throw"]

\* i: the image the loop is at; canvasesDone, waited, responses: what the run has
\* done; checked: the images that reached the inclusion check; fetched: those
\* imageUrlToBase64 was called for; inlined: those it succeeded for
RunIdle == [pc |-> "none", i |-> 0, canvasesDone |-> 0, assets |-> <<>>, waited |-> {},
            responses |-> 0, checked |-> {}, fetched |-> {}, inlined |-> {}]
ChanNone == [state |-> "none"]

Field(r, f) == IF f \in DOMAIN r THEN r[f] ELSE Undefined

\* window.location.href / hostname, document.title
extractMetadata ==
  [url |-> href(page.location), title |-> "T", domain |-> page.location.hostname]

\* the /i flag, for the letters of the three tag patterns
Lower(ch) == CASE ch = "H" -> "h" [] ch = "E" -> "e" [] ch = "A" -> "a" [] ch = "D" -> "d"
               [] ch = "B" -> "b" [] ch = "S" -> "s" [] ch = "T" -> "t" [] ch = "M" -> "m"
               [] ch = "L" -> "l" [] OTHER -> ch

Min(S) == CHOOSE x \in S : \A y \in S : x <= y

\* the positions where /<name[^>]*>/i matches in html
Matches(html, name) ==
  { k \in 1..Len(html) :
      /\ k + Len(name) <= Len(html)
      /\ html[k] = "<"
      /\ \A n \in 1..Len(name) : Lower(html[k + n]) = name[n]
      /\ \E e \in (k + Len(name) + 1)..Len(html) : html[e] = ">" }

\* (mutant) the pattern without its /i flag
testCaseSensitive(html, name) ==
  \E k \in 1..Len(html) :
      /\ k + Len(name) <= Len(html)
      /\ html[k] = "<"
      /\ \A n \in 1..Len(name) : html[k + n] = name[n]
      /\ \E e \in (k + Len(name) + 1)..Len(html) : html[e] = ">"

\* regex.test(html)
test(html, name) == Matches(html, name) # {}

\* html.replace(regex, (match) => match + insertion): the first match is
\* followed by the insertion
replace(html, name, insertion) ==
  LET k == Min(Matches(html, name))
      e == Min({ n \in (k + Len(name) + 1)..Len(html) : html[n] = ">" })
  IN SubSeq(html, 1, e) \o insertion \o SubSeq(html, e + 1, Len(html))

\* window.location.protocol + "//" + window.location.host + window.location.pathname
baseHref(location) == location.protocol \o <<"/","/">> \o location.host \o location.pathname

BaseName == <<"b","a","s","e">>
HeadName == <<"h","e","a","d">>
HtmlName == <<"h","t","m","l">>
\* `\n<base href="${baseHref}">`
BaseTag(location) == <<"\n","<","b","a","s","e"," ","h","r","e","f","=","\"">> \o baseHref(location) \o <<"\"",">">>
\* `\n<head><base href="${baseHref}"></head>`
HeadWithBase(location) ==
  <<"\n","<","h","e","a","d",">","<","b","a","s","e"," ","h","r","e","f","=","\"">> \o baseHref(location) \o <<"\"",">","<","/","h","e","a","d",">">>

\* what generateHtmlSnapshot is when document.documentElement is null: reading
\* outerHTML raises a TypeError
Thrown == <<"TypeError">>

\* generateHtmlSnapshot() on a document with a root element
snapshot(html, location) ==
  IF ~test(html, BaseName)
  THEN IF test(html, HeadName) THEN replace(html, HeadName, BaseTag(location))
       ELSE IF test(html, HtmlName) THEN replace(html, HtmlName, HeadWithBase(location))
       ELSE html
  ELSE html

generateHtmlSnapshot ==
  IF page.hasRoot THEN snapshot(page.outerHTML, page.location) ELSE Thrown

\* canvas.toDataURL("image/png") of the k-th canvas
ToDataURL(k) == <<"png", k>>

\* (mutant) processCanvas without its try/catch: the SecurityError is raised
processCanvasUncaught(k) ==
  LET canvas == page.canvases[k] IN
  IF canvas.width = 0 \/ canvas.height = 0 THEN Null
  ELSE IF canvas.tainted THEN Throw
  ELSE [type |-> "canvas_chart", base64 |-> ToDataURL(k),
        width |-> canvas.width, height |-> canvas.height, el |-> k]

\* (mutant) a canvas is taken for empty only when both dimensions are zero
processCanvasBothZero(k) ==
  LET canvas == page.canvases[k] IN
  IF canvas.width = 0 /\ canvas.height = 0 THEN Null
  ELSE IF canvas.tainted THEN Null
  ELSE [type |-> "canvas_chart", base64 |-> ToDataURL(k),
        width |-> canvas.width, height |-> canvas.height, el |-> k]

processCanvas(k) ==
  LET canvas == page.canvases[k] IN
  IF canvas.width = 0 \/ canvas.height = 0 THEN Null
  ELSE IF canvas.tainted THEN Null       \* catch (error): warn, return null
  ELSE [type |-> "canvas_chart", base64 |-> ToDataURL(k),
        width |-> canvas.width, height |-> canvas.height, el |-> k]

\* (mutant) assets.unshift(asset)
unshift(assets, asset) == <<asset>> \o assets

\* assets.push(asset)
push(assets, asset) == Append(assets, asset)

\* the canvas loop of extractAssets; el is the element's document position
RECURSIVE canvasLoop(_, _)
canvasLoop(k, assets) ==
  IF k > Len(page.canvases) THEN [threw |-> FALSE, assets |-> assets, done |-> k - 1]
  ELSE LET a == processCanvas(k) IN
       IF a.type = "throw" THEN [threw |-> TRUE, assets |-> assets, done |-> k - 1]
       ELSE IF a.type = "null" THEN canvasLoop(k + 1, assets)
       ELSE canvasLoop(k + 1, push(assets, a))

\* sendResponse(r): the first answer on a channel is delivered, later calls
\* on the same channel are dropped by the browser
sendResponse(E, r, answer) ==
  [E EXCEPT !.run[r].responses = @ + 1,
            !.chan[r[1]] = IF @.state = "open"
                           THEN [state |-> "replied", reply |-> answer] ELSE @]

\* .then(data => sendResponse({ success: true, ...data }))
onCaptured(E, r, assets) ==
  sendResponse([E EXCEPT !.run[r].pc = "done", !.run[r].assets = assets,
                         !.run[r].i = Len(page.images) + 1], r,
    [success |-> TRUE, url |-> extractMetadata.url, domain |-> extractMetadata.domain,
     title |-> extractMetadata.title, htmlSnapshot |-> generateHtmlSnapshot,
     assets |-> assets])

\* (mutant) a listener whose .catch logs the error and sends no response
onCaptureFailedSilent(E, r, message) == [E EXCEPT !.run[r].pc = "failed"]

\* capturePageData's catch: throw new Error('采集数据时出错: ' + error.message);
\* .catch(error => sendResponse({ success: false, error: error.message }))
onCaptureFailed(E, r, message) ==
  sendResponse([E EXCEPT !.run[r].pc = "failed"], r,
    [success |-> FALSE, error |-> Err.CaptureData \o message])

\* (mutant) every image that has not loaded is waited for at once
WaitSetAll(imgs, i) == { j \in DOMAIN imgs : j >= i /\ ~imgs[j].complete }

\* the images whose load wait begins when the loop reaches image i
WaitSet(imgs, i) == {i}

isBase64(src) == StartsWith(src, DataImagePrefix)

\* (mutant) one large dimension is enough
isLargeEnoughEither(size) == size[1] >= MinImageSize \/ size[2] >= MinImageSize

isLargeEnough(size) == size[1] >= MinImageSize /\ size[2] >= MinImageSize

\* the image loop of extractAssets from image i on, run until the next
\* suspension (a load wait or a fetch) or to the end
RECURSIVE extractAssets(_, _, _, _)
RECURSIVE processImage(_, _, _, _)
extractAssets(E, r, i, assets) ==
  IF i > Len(page.images) THEN onCaptured(E, r, assets)
  ELSE IF ~E.img[i].complete
  THEN \* await new Promise(...): img.onload, img.onerror, setTimeout
       [E EXCEPT !.run[r].pc = "wait", !.run[r].i = i, !.run[r].assets = assets,
                 !.run[r].waited = @ \cup WaitSet(E.img, i),
                 !.img[i].onload = r, !.img[i].onerror = r,
                 !.timers = @ \cup {<<r, i>>}]
  ELSE processImage(E, r, i, assets)

\* processImage after the load check
processImage(E, r, i, assets) ==
  LET src == page.images[i]
      size == E.img[i].size
      E1 == [E EXCEPT !.run[r].checked = @ \cup {i}]
  IN IF ~isBase64(src) /\ ~isLargeEnough(size) THEN extractAssets(E1, r, i + 1, assets)
     ELSE IF isBase64(src)
     THEN extractAssets(E1, r, i + 1,
            push(assets, [type |-> "image", base64 |-> src,
                          width |-> size[1], height |-> size[2], el |-> i]))
     ELSE \* await imageUrlToBase64(src)
          [E1 EXCEPT !.run[r].pc = "fetch", !.run[r].i = i, !.run[r].assets = assets,
                     !.run[r].fetched = @ \cup {i}]

\* the image is skipped: processImage's outer catch returns null
skipImage(E, r, i) == extractAssets(E, r, i + 1, E.run[r].assets)

\* imageUrlToBase64(src) of a fetched image
Base64Of(src) == DataImagePrefix \o <<"f">> \o src

\* capturePageData up to its first suspension
capturePageData(E, r) ==
  IF generateHtmlSnapshot = Thrown THEN onCaptureFailed(E, r, Err.NoRoot)
  ELSE LET cs == canvasLoop(1, <<>>) IN
       IF cs.threw
       THEN onCaptureFailed([E EXCEPT !.run[r].canvasesDone = cs.done], r, Err.Tainted)
       ELSE extractAssets([E EXCEPT !.run[r].canvasesDone = cs.done], r, 1, cs.assets)

\* the message is handed to every listener content.js has added, in order
RECURSIVE dispatch(_, _, _)
dispatch(E, c, l) ==
  IF l > injected THEN E ELSE dispatch(capturePageData(E, <<c, l>>), c, l + 1)

Engine == [run |-> run, img |-> img, timers |-> timers, chan |-> chan]
SetEngine(E) ==
  /\ run' = E.run
  /\ img' = E.img
  /\ timers' = E.timers
  /\ chan' = E.chan

\* chrome.runtime.onMessage listener(s) of content.js receive { action: 'capture' }
EngineReceive(c) ==
  /\ chan[c].state = "sent"
  /\ injected > 0
  /\ SetEngine(dispatch([Engine EXCEPT !.chan[c] = [state |-> "open"]], c, 1))
  /\ UNCHANGED <<popupVars, injected, page, relayVars, configVars>>

\* the load event of image i
ImageLoads(i) ==
  /\ i \in DOMAIN img
  /\ ~img[i].complete
  /\ \E sz \in LoadedSizes :
       LET E1 == [Engine EXCEPT !.img[i].complete = TRUE, !.img[i].size = sz]
           r == img[i].onload
       IN SetEngine(IF r # NoRun /\ run[r].pc = "wait" /\ run[r].i = i
                    THEN processImage(E1, r, i, run[r].assets) ELSE E1)
  /\ UNCHANGED <<popupVars, injected, page, relayVars, configVars>>

\* the error event of image i
ImageErrors(i) ==
  /\ i \in DOMAIN img
  /\ ~img[i].complete
  /\ LET E1 == [Engine EXCEPT !.img[i].complete = TRUE, !.img[i].size = BrokenSize]
         r == img[i].onerror
     IN SetEngine(IF r # NoRun /\ run[r].pc = "wait" /\ run[r].i = i
                  THEN skipImage(E1, r, i) ELSE E1)
  /\ UNCHANGED <<popupVars, injected, page, relayVars, configVars>>

\* setTimeout(() => reject(new Error('图片加载超时')), 5000) comes due
TimerFires(r, i) ==
  /\ <<r, i>> \in timers
  /\ LET E1 == [Engine EXCEPT !.timers = @ \ {<<r, i>>}]
     IN SetEngine(IF run[r].pc = "wait" /\ run[r].i = i THEN skipImage(E1, r, i) ELSE E1)
  /\ UNCHANGED <<popupVars, injected, page, relayVars, configVars>>

\* imageUrlToBase64 settles: the asset carries base64 only when it succeeded
FetchSettles(r) ==
  /\ run[r].pc = "fetch"
  /\ \E fetched \in BOOLEAN :
       LET i == run[r].i
           src == page.images[i]
           size == img[i].size
           asset == IF fetched
                    THEN [type |-> "image", base64 |-> Base64Of(src), src_url |-> src,
                          width |-> size[1], height |-> size[2], el |-> i]
                    ELSE [type |-> "image", src_url |-> src,
                          width |-> size[1], height |-> size[2], el |-> i]
           E1 == [Engine EXCEPT !.run[r].inlined = IF fetched THEN @ \cup {i} ELSE @]
       IN SetEngine(extractAssets(E1, r, i + 1, push(run[r].assets, asset)))
  /\ UNCHANGED <<popupVars, injected, page, relayVars, configVars>>


\* ------------------------------------------------------- the relay (worker)
Statuses == {200, 405, 500}
FetchErrors == {FailedToFetch, NetworkError \o <<" ","x">>, LoadFailed}
Bodies ==
  { ServerError,
    FailedToFetch,
    <<"a"," ">> \o NetworkError,
    Rep("x", MaxPad - 6) \o FailedToFetch,
    Rep("x", MaxPad) }

\* Response.ok
ok(status) == status >= HttpOkLow /\ status <= HttpOkHigh

ApiIdle == [pc |-> "none", status |-> 0, bodyRead |-> FALSE, body |-> <<>>, answer |-> Null]

\* throw new Error(`API 返回错误 (${response.status}): ${errorData.substring(0, 100)}`)
httpErrorMessage(status, errorData) ==
  Err.ApiError \o NumToStr(status) \o <<")", ":", " ">> \o Substring0(errorData, BodyLimit)

\* the catch block of sendToApi: the message of the error it rethrows
sendToApiCatch(message) ==
  IF Includes(message, FailedToFetch) \/ Includes(message, NetworkError)
  THEN Err.CannotConnect
  ELSE message

\* .catch(error => sendResponse({ success: false, error: error.message }))
apiFailed(c, message) ==
  [api[c] EXCEPT !.pc = "done",
                 !.answer = [success |-> FALSE, error |-> sendToApiCatch(message)]]

\* the worker's listener receives { action: 'sendToApi' } and calls fetch
RelayReceive(c) ==
  /\ api[c].pc = "sent"
  /\ api' = [api EXCEPT ![c].pc = "fetch"]
  /\ UNCHANGED <<popupVars, pageVars, probe, configVars>>

\* the worker cannot be reached: chrome.runtime.sendMessage rejects
RelayUnreachable(c) ==
  /\ api[c].pc = "sent"
  /\ api' = [api EXCEPT ![c].pc = "unreachable"]
  /\ UNCHANGED <<popupVars, pageVars, probe, configVars>>

\* fetch(endpoint, { method: 'POST', ... }) settles
ApiFetchSettles(c) ==
  /\ api[c].pc = "fetch"
  /\ \/ \E m \in FetchErrors : api' = [api EXCEPT ![c] = apiFailed(c, m)]
     \/ \E s \in Statuses :
          api' = [api EXCEPT ![c].pc = IF ok(s) THEN "json" ELSE "text",
                             ![c].status = s]
  /\ UNCHANGED <<popupVars, pageVars, probe, configVars>>

\* response.text().catch(() => '无法读取错误信息') settles, then the throw
ApiTextSettles(c) ==
  /\ api[c].pc = "text"
  /\ \/ \E b \in Bodies :
          api' = [api EXCEPT ![c] = [apiFailed(c, httpErrorMessage(api[c].status, b))
                                       EXCEPT !.bodyRead = TRUE, !.body = b]]
     \/ api' = [api EXCEPT ![c] = apiFailed(c, httpErrorMessage(api[c].status, Err.Unreadable))]
  /\ UNCHANGED <<popupVars, pageVars, probe, configVars>>

\* response.json().catch(() => ({})) settles; sendResponse({ success: true, response })
ApiJsonSettles(c) ==
  /\ api[c].pc = "json"
  /\ \E data \in {"data", "{}"} :
       api' = [api EXCEPT ![c].pc = "done",
                          ![c].answer = [success |-> TRUE, response |-> data]]
  /\ UNCHANGED <<popupVars, pageVars, probe, configVars>>


ProbeIdle == [pc |-> "idle", fetch |-> Null, status |-> "none"]

\* how a fetch settles: it rejects, or resolves with a response
Rejected == [type |-> "rejected"]
Response(s) == [type |-> "response", status |-> s]

\* (mutant) the fetch without its .catch(() => null): the rejection is raised
probeResponseUncaught(settled) == IF settled.type = "rejected" THEN Throw ELSE settled

\* fetch(...).catch(() => null): a rejection becomes a null response
probeResponse(settled) == IF settled.type = "rejected" THEN Null ELSE settled

\* the statuses an OPTIONS probe is answered with
ProbeStatuses == Statuses \cup {204, 299, 300, 404}

\* (mutant) only a success status counts as connected
checkApiStatusResultOkOnly(settled) ==
  LET response == probeResponse(settled)
  IN IF response.type = "throw" THEN "failed"
     ELSE IF response.type # "null" /\ ok(response.status) THEN "connected"
     ELSE "unknown"

\* checkApiStatus(endpoint) of the worker, given how its fetch settled
checkApiStatusResult(settled) ==
  LET response == probeResponse(settled)
  IN IF response.type = "throw" THEN "failed"        \* catch (error)
     ELSE IF response.type # "null" /\
             (ok(response.status) \/ response.status = HttpMethodNotAllowed)
     THEN "connected"
     ELSE "unknown"

\* the worker's listener receives { action: 'checkApiStatus' } and calls fetch
ProbeStart ==
  /\ probe.pc \in {"idle", "done"}
  /\ probe' = [pc |-> "fetch", fetch |-> Null, status |-> "none"]
  /\ UNCHANGED <<popupVars, pageVars, api, configVars>>

\* fetch(endpoint, { method: 'OPTIONS', mode: 'cors' }) settles
ProbeSettles ==
  /\ probe.pc = "fetch"
  /\ \E settled \in {Rejected} \cup { Response(s) : s \in ProbeStatuses } :
       probe' = [pc |-> "done", fetch |-> settled, status |-> checkApiStatusResult(settled)]
  /\ UNCHANGED <<popupVars, pageVars, api, configVars>>

\* ---------------------------------------------------- the popup (capture)
\* 'http://h/api', 'u1': a configuration saved in an earlier session
Endpoint1 == <<"h","t","t","p",":","/","/","h","/","a","p","i">>
UserId1 == <<"u","1">>
Endpoints == {Endpoint1}
UserIds == {UserId1}
StorageEmpty == [apiEndpoint |-> Undefined, userId |-> Undefined]
Falsy(v) == v = Undefined \/ v = <<>>

\* (mutant) the userId check dropped
missingUserIdUnchecked(userId) == FALSE

\* if (!userId)
missingUserId(userId) == Falsy(userId)

\* (mutant) the capture result accepted without validation
captureFailedUnchecked(captureResult) == FALSE

\* if (!captureResult.success || captureResult.error)
captureFailed(captureResult) ==
  ~captureResult.success \/ ~Falsy(Field(captureResult, "error"))

\* if (!apiResponse || !apiResponse.success)
uploadFailed(apiResponse) == ~apiResponse.success

ClickIdle ==
  [pc |-> "idle", userId |-> Undefined, apiEndpoint |-> Undefined, captureResult |-> Null,
   tabQueries |-> 0, injections |-> 0, captureMsgs |-> 0, apiMsgs |-> 0, shown |-> "none"]

\* captureResult.assets || []
assetsOf(captureResult) ==
  IF "assets" \in DOMAIN captureResult THEN captureResult.assets ELSE <<>>

\* the handler ends having shown an error / the success message
endError(c, message) ==
  /\ showError(message)
  /\ click' = [click EXCEPT ![c].pc = "done", ![c].shown = "error"]

\* captureBtn click: clearFeedback(); chrome.storage.local.get is called
Click(c) ==
  /\ click[c].pc = "idle"
  /\ \A d \in Clicks : d < c => click[d].pc # "idle"
  /\ clearFeedback
  /\ click' = [click EXCEPT ![c].pc = "storageGet"]
  /\ UNCHANGED <<storage, pageVars, relayVars, configVars>>

\* chrome.storage.local.get settles (line 137, outside the try block)
StorageGetSettles(c) ==
  /\ click[c].pc = "storageGet"
  /\ \/ \* it rejects: the handler's promise rejects, nothing is shown
        /\ click' = [click EXCEPT ![c].pc = "rejected"]
        /\ UNCHANGED feedback
     \/ LET apiEndpoint == IF Falsy(storage.apiEndpoint) THEN DEFAULT_API_ENDPOINT
                           ELSE storage.apiEndpoint
            userId == storage.userId
        IN IF missingUserId(userId)
           THEN /\ showError(Msg.NoUserId)
                /\ click' = [click EXCEPT ![c].pc = "done", ![c].shown = "error",
                                          ![c].userId = userId]
           ELSE /\ showProgress(Msg.Dom)
                /\ click' = [click EXCEPT ![c].pc = "tabsQuery", ![c].userId = userId,
                                          ![c].apiEndpoint = apiEndpoint,
                                          ![c].tabQueries = @ + 1]
  /\ UNCHANGED <<storage, pageVars, relayVars, configVars>>

\* chrome.tabs.query settles: rejected, no tab, or the active tab
TabsQuerySettles(c) ==
  /\ click[c].pc = "tabsQuery"
  /\ \/ endError(c, Msg.CaptureFailed \o LoadFailed)
     \/ endError(c, Msg.NoTab)
     \/ /\ click' = [click EXCEPT ![c].pc = "inject", ![c].injections = @ + 1]
        /\ UNCHANGED feedback
  /\ UNCHANGED <<storage, pageVars, relayVars, configVars>>

\* chrome.scripting.executeScript settles (content.js has run in the page, or
\* the rejection is ignored); showProgress; chrome.tabs.sendMessage is called
ExecuteScriptSettles(c) ==
  /\ click[c].pc = "inject"
  /\ \E ran \in BOOLEAN : injected' = IF ran THEN injected + 1 ELSE injected
  /\ showProgress(Msg.Extract)
  /\ click' = [click EXCEPT ![c].pc = "capture", ![c].captureMsgs = @ + 1]
  /\ chan' = [chan EXCEPT ![c] = [state |-> "sent"]]
  /\ UNCHANGED <<storage, page, img, run, timers, relayVars, configVars>>

\* the capture message reaches no listener (tabs.sendMessage will reject), or
\* the channel closes without an answer (it resolves with undefined)
DeliveryFails(c) ==
  /\ chan[c].state = "sent"
  /\ \/ chan' = [chan EXCEPT ![c] = [state |-> "rejected"]]
     \/ injected > 0 /\ chan' = [chan EXCEPT ![c] = [state |-> "undefined"]]
  /\ UNCHANGED <<popupVars, injected, page, img, run, timers, relayVars, configVars>>

\* chrome.tabs.sendMessage settles; on a valid result the payload is built and
\* chrome.runtime.sendMessage({ action: 'sendToApi', ... }) is called
CaptureSettles(c) ==
  /\ click[c].pc = "capture"
  /\ chan[c].state \in {"rejected", "undefined", "replied"}
  /\ IF chan[c].state = "rejected"
     THEN endError(c, Msg.CaptureFailed \o Msg.NoComm) /\ UNCHANGED api
     ELSE IF chan[c].state = "undefined"
     THEN endError(c, Msg.CaptureFailed \o Msg.NoResult) /\ UNCHANGED api
     ELSE LET captureResult == chan[c].reply IN
          IF captureFailed(captureResult)
          THEN /\ endError(c, Msg.CaptureFailed \o
                             (IF Falsy(Field(captureResult, "error")) THEN Msg.CapFail
                              ELSE captureResult.error))
               /\ UNCHANGED api
          ELSE /\ showProgress(Msg.Upload)
               /\ click' = [click EXCEPT ![c].pc = "upload", ![c].apiMsgs = @ + 1,
                                         ![c].captureResult = captureResult]
               /\ api' = [api EXCEPT ![c] =
                            [ApiIdle EXCEPT !.pc = "sent"] @@
                            [endpoint |-> click[c].apiEndpoint,
                             payload |-> [user_id |-> click[c].userId,
                                          source_url |-> Field(captureResult, "url"),
                                          domain |-> Field(captureResult, "domain"),
                                          title |-> Field(captureResult, "title"),
                                          html_snapshot |-> Field(captureResult, "htmlSnapshot"),
                                          assets |-> assetsOf(captureResult)]]]
  /\ UNCHANGED <<storage, pageVars, probe, configVars>>

\* chrome.runtime.sendMessage settles
UploadSettles(c) ==
  /\ click[c].pc = "upload"
  /\ api[c].pc \in {"unreachable", "done"}
  /\ IF api[c].pc = "unreachable"
     THEN endError(c, Msg.CaptureFailed \o Msg.NoBackend \o LoadFailed)
     ELSE LET apiResponse == api[c].answer IN
          IF uploadFailed(apiResponse)
          THEN endError(c, Msg.CaptureFailed \o Msg.NoBackend \o
                           (IF Falsy(Field(apiResponse, "error")) THEN Msg.UploadFail
                            ELSE apiResponse.error))
          ELSE /\ showSuccess(MsgUploaded(Len(assetsOf(click[c].captureResult))))
               /\ click' = [click EXCEPT ![c].pc = "done", ![c].shown = "success"]
  /\ UNCHANGED <<storage, pageVars, relayVars, configVars>>

\* ------------------------------------------------ the popup (configuration)
SaveIds == 1..MaxSaves
\* the check made at popup load is number 0, the one after save k is number k
CheckIds == 0..MaxSaves

\* what the user types into #apiEndpoint: blanks, a URL between blanks, a text
\* without a scheme
TypedEndpoints ==
  { <<" "," ">>, <<" ","h","t","t","p",":","/","/","g","/","a","p","i"," ">>, <<"h","/","a","p","i">> }
\* what the user types into #userId: a blank, an id between blanks
TypedUserIds == { <<" ">>, <<" ","u","2"," ">> }

Whitespace == {" ", "\t", "\n"}

\* String.prototype.trim()
RECURSIVE TrimStart(_)
TrimStart(text) ==
  IF text # <<>> /\ Head(text) \in Whitespace THEN TrimStart(Tail(text)) ELSE text
RECURSIVE TrimEnd(_)
TrimEnd(text) ==
  IF text # <<>> /\ text[Len(text)] \in Whitespace
  THEN TrimEnd(SubSeq(text, 1, Len(text) - 1)) ELSE text
trim(text) == TrimEnd(TrimStart(text))

SchemeLetters == {"h", "t", "p", "s"}
\* new URL(text) throws unless text is an absolute URL: a scheme, ':' and more
URLThrows(text) ==
  ~ \E k \in 2..(Len(text) - 1) :
      text[k] = ":" /\ \A n \in 1..(k - 1) : text[n] \in SchemeLetters

FormBlank == [apiEndpointInput |-> <<>>, userIdInput |-> <<>>,
              currentEndpoint |-> <<>>, currentUserId |-> <<>>]
SaveIdle == [pc |-> "idle", apiEndpoint |-> Undefined, userId |-> Undefined]
CheckIdle == [pc |-> "none", endpoint |-> Undefined, response |-> Null, shown |-> Null]

\* checkApiStatus() is called
startCheck(k) == check' = [check EXCEPT ![k] = [CheckIdle EXCEPT !.pc = "storageGet"]]

\* loadConfig: chrome.storage.local.get settles; then checkApiStatus() is called
LoadConfigSettles ==
  /\ load = "loadConfig"
  /\ \/ /\ showError(Msg.LoadFailed \o LoadFailed)
        /\ UNCHANGED form
     \/ /\ form' =
             [apiEndpointInput |-> IF Falsy(storage.apiEndpoint) THEN DEFAULT_API_ENDPOINT
                                   ELSE storage.apiEndpoint,
              currentEndpoint |-> IF Falsy(storage.apiEndpoint) THEN DEFAULT_API_ENDPOINT
                                  ELSE storage.apiEndpoint,
              userIdInput |-> IF Falsy(storage.userId) THEN form.userIdInput
                              ELSE storage.userId,
              currentUserId |-> IF Falsy(storage.userId) THEN Dash ELSE storage.userId]
        /\ UNCHANGED feedback
  /\ load' = "done"
  /\ startCheck(0)
  /\ UNCHANGED <<storage, click, pageVars, relayVars, statusIndicator, statusText, save>>

\* (mutant) the validation without the userId check
validationErrorNoUserId(apiEndpoint, userId) ==
  IF Falsy(apiEndpoint) THEN Msg.EnterEndpoint
  ELSE IF URLThrows(apiEndpoint) THEN Msg.BadEndpoint
  ELSE Undefined

\* the message of the failed check of the save handler, undefined when all pass
validationError(apiEndpoint, userId) ==
  IF Falsy(apiEndpoint) THEN Msg.EnterEndpoint
  ELSE IF Falsy(userId) THEN Msg.EnterUserId
  ELSE IF URLThrows(apiEndpoint) THEN Msg.BadEndpoint
  ELSE Undefined

\* saveConfigBtn click, the user having left each input field as it was or typed
\* into it: the inputs are trimmed and validated; chrome.storage.local.set is
\* called
SaveClick(k) ==
  /\ save[k].pc = "idle"
  /\ \A d \in SaveIds : d < k => save[d].pc # "idle"
  /\ \E e \in TypedEndpoints \cup {form.apiEndpointInput},
        u \in TypedUserIds \cup {form.userIdInput} :
       /\ form' = [form EXCEPT !.apiEndpointInput = e, !.userIdInput = u]
       /\ LET apiEndpoint == trim(e)
              userId == trim(u)
          IN IF validationError(apiEndpoint, userId) # Undefined
             THEN /\ showError(validationError(apiEndpoint, userId))
                  /\ save' = [save EXCEPT ![k].pc = "invalid"]
             ELSE /\ save' = [save EXCEPT ![k] = [pc |-> "set", apiEndpoint |-> apiEndpoint,
                                                  userId |-> userId]]
                  /\ UNCHANGED feedback
  /\ UNCHANGED <<storage, click, pageVars, relayVars, statusIndicator, statusText,
                 load, check>>

\* chrome.storage.local.set settles; the display is updated; checkApiStatus() is
\* called
StorageSetSettles(k) ==
  /\ save[k].pc = "set"
  /\ \/ /\ showError(Msg.SaveFailed \o LoadFailed)
        /\ save' = [save EXCEPT ![k].pc = "failed"]
        /\ UNCHANGED <<storage, form, check>>
     \/ /\ storage' = [apiEndpoint |-> save[k].apiEndpoint, userId |-> save[k].userId]
        /\ form' = [form EXCEPT !.currentEndpoint = save[k].apiEndpoint,
                                !.currentUserId = save[k].userId]
        /\ showSuccess(Msg.Saved)
        /\ save' = [save EXCEPT ![k].pc = "saved"]
        /\ startCheck(k)
  /\ UNCHANGED <<click, pageVars, relayVars, statusIndicator, statusText, load>>

\* what checkApiStatus() of the popup puts on the indicator
Indication(className, text) == [className |-> className, textContent |-> text]
Warning == Indication("status-indicator warning", Msg.ConnUnknown)
indicate(response) ==
  IF response.type = "throw"
  THEN Indication("status-indicator error", Msg.ConnFailedColon \o LoadFailed)
  ELSE IF response.type = "null" \/ ~response.success THEN Warning
  ELSE IF response.status = "connected"
  THEN Indication("status-indicator connected", Msg.Connected)
  ELSE IF response.status = "unknown" THEN Warning
  ELSE Indication("status-indicator error", Msg.ConnFailed)

\* the call ends: the indicator is set
endCheck(k, endpoint, response) ==
  /\ statusIndicator' = indicate(response).className
  /\ statusText' = indicate(response).textContent
  /\ check' = [check EXCEPT ![k] = [pc |-> "done", endpoint |-> endpoint,
                                    response |-> response, shown |-> indicate(response)]]

\* checkApiStatus: chrome.storage.local.get(['apiEndpoint']) settles;
\* chrome.runtime.sendMessage({ action: 'checkApiStatus', endpoint }) is called
CheckStorageGetSettles(k) ==
  /\ check[k].pc = "storageGet"
  /\ \/ endCheck(k, Undefined, Throw)
     \/ /\ check' = [check EXCEPT ![k].pc = "sent",
                                  ![k].endpoint = IF Falsy(storage.apiEndpoint)
                                                  THEN DEFAULT_API_ENDPOINT
                                                  ELSE storage.apiEndpoint]
        /\ UNCHANGED <<statusIndicator, statusText>>
  /\ UNCHANGED <<popupVars, pageVars, relayVars, form, load, save>>

\* the worker's listener calls checkApiStatus(request.endpoint), its fetch
\* settles and it answers with sendResponse({ success: true, status }); or the
\* worker cannot be reached and chrome.runtime.sendMessage rejects
CheckProbeSettles(k) ==
  /\ check[k].pc = "sent"
  /\ \/ check' = [check EXCEPT ![k].pc = "answered", ![k].response = Throw]
     \/ \E settled \in {Rejected} \cup { Response(s) : s \in ProbeStatuses } :
          check' = [check EXCEPT ![k].pc = "answered",
                                 ![k].response =
                                   [type |-> "response", success |-> TRUE,
                                    status |-> checkApiStatusResult(settled)]]
  /\ UNCHANGED <<popupVars, pageVars, relayVars, form, statusIndicator, statusText, load,
                 save>>

\* chrome.runtime.sendMessage settles in the popup: the indicator is updated
CheckSettles(k) ==
  /\ check[k].pc = "answered"
  /\ endCheck(k, check[k].endpoint, check[k].response)
  /\ UNCHANGED <<popupVars, pageVars, relayVars, form, load, save>>

\* ------------------------------------------------------ the specifications
Hidden(message) == [textContent |-> message, hidden |-> TRUE]
Shown(message) == [textContent |-> message, hidden |-> FALSE]

Saved == { [apiEndpoint |-> e, userId |-> u] : e \in Endpoints, u \in UserIds }

OkCanvas == [width |-> 800, height |-> 400, tainted |-> FALSE]
EmptyPage == [hasRoot |-> TRUE, canvases |-> <<>>, images |-> <<>>,
              outerHTML |-> PlainDocument, location |-> Location1]
\* the documents of the whole-system specification
SystemPages ==
  { NoRootPage,
    EmptyPage,
    [EmptyPage EXCEPT !.canvases = <<OkCanvas>>] }

\* the popup has just been opened: DOMContentLoaded has called loadConfig
ConfigInit ==
  /\ form = FormBlank
  /\ statusIndicator = "status-indicator"
  /\ statusText = <<>>
  /\ load = "loadConfig"
  /\ save = [k \in SaveIds |-> SaveIdle]
  /\ check = [k \in CheckIds |-> CheckIdle]

\* the popup has just been opened
Init ==
  /\ progressText = Hidden(<<>>)
  /\ errorText = Hidden(<<>>)
  /\ successText = Hidden(<<>>)
  /\ storage \in {StorageEmpty} \cup Saved
  /\ click = [c \in Clicks |-> ClickIdle]
  /\ injected = 0
  /\ page \in SystemPages
  /\ img \in [DOMAIN page.images -> ImgStates]
  /\ run = [r \in Runs |-> RunIdle]
  /\ chan = [c \in Clicks |-> ChanNone]
  /\ timers = {}
  /\ api = [c \in Clicks |-> ApiIdle]
  /\ probe = ProbeIdle
  /\ ConfigInit

PopupNext ==
  \E c \in Clicks :
    \/ Click(c)
    \/ StorageGetSettles(c)
    \/ TabsQuerySettles(c)
    \/ ExecuteScriptSettles(c)
    \/ DeliveryFails(c)
    \/ CaptureSettles(c)
    \/ UploadSettles(c)

EngineNext ==
  \/ \E c \in Clicks : EngineReceive(c)
  \/ \E i \in 1..MaxImages : ImageLoads(i) \/ ImageErrors(i)
  \/ \E r \in Runs : FetchSettles(r) \/ \E i \in 1..MaxImages : TimerFires(r, i)

RelayNext ==
  \E c \in Clicks :
    \/ RelayReceive(c)
    \/ RelayUnreachable(c)
    \/ ApiFetchSettles(c)
    \/ ApiTextSettles(c)
    \/ ApiJsonSettles(c)

\* the documents of SystemPages hold no img element: no image event occurs
Next == PopupNext \/ (\E c \in Clicks : EngineReceive(c)) \/ RelayNext

\* the whole system: popup, page and worker
Spec == Init /\ [][Next]_vars

\* The status display under arbitrary calls.
FeedbackMessages == {Msg.Dom, Msg.NoTab, Msg.CapFail}

CallShowProgress == \E m \in FeedbackMessages : showProgress(m)
CallShowError == \E m \in FeedbackMessages : showError(m)
CallShowSuccess == \E m \in FeedbackMessages : showSuccess(m)
CallClearFeedback == clearFeedback

FeedbackNext ==
  /\ CallShowProgress \/ CallShowError \/ CallShowSuccess \/ CallClearFeedback
  /\ UNCHANGED <<storage, click, pageVars, relayVars, configVars>>

SpecFeedback == Init /\ [][FeedbackNext]_vars

\* The page engine on any document: the first click's capture message is on
\* its way to a page in which content.js has run once.
ClickAtCapture ==
  [ClickIdle EXCEPT !.pc = "capture", !.userId = UserId1, !.apiEndpoint = Endpoint1,
                    !.tabQueries = 1, !.injections = 1, !.captureMsgs = 1]

EngineInit ==
  /\ progressText = Shown(Msg.Extract)
  /\ errorText = Hidden(<<>>)
  /\ successText = Hidden(<<>>)
  /\ storage \in Saved
  /\ click = [c \in Clicks |-> IF c = 1 THEN ClickAtCapture ELSE ClickIdle]
  /\ injected = 1
  /\ page \in Pages
  /\ img \in [DOMAIN page.images -> ImgStates]
  /\ run = [r \in Runs |-> RunIdle]
  /\ chan = [c \in Clicks |-> IF c = 1 THEN [state |-> "sent"] ELSE ChanNone]
  /\ timers = {}
  /\ api = [c \in Clicks |-> ApiIdle]
  /\ probe = ProbeIdle
  /\ ConfigInit

SpecEngine == EngineInit /\ [][EngineNext]_vars

\* the message is delivered, timers come due and image fetches settle: while
\* one of these is pending, one of them happens
EngineSettles ==
  \/ EngineReceive(1)
  \/ \E r \in Runs : FetchSettles(r) \/ \E i \in 1..MaxImages : TimerFires(r, i)

EngineFairness == WF_vars(EngineSettles)

FairSpecEngine == EngineInit /\ [][EngineNext]_vars /\ EngineFairness

\* The page engine after a re-injection: the first click injected content.js
\* and ended without a capture result; the second click injected it again, and
\* its capture message is on its way to the two listeners.
ReinjectedInit ==
  /\ progressText = Shown(Msg.Extract)
  /\ errorText = Hidden(<<>>)
  /\ successText = Hidden(<<>>)
  /\ storage \in Saved
  /\ click = [c \in Clicks |->
               IF c = 1 THEN [ClickAtCapture EXCEPT !.pc = "done", !.shown = "error"]
               ELSE IF c = 2 THEN ClickAtCapture ELSE ClickIdle]
  /\ injected = 2
  /\ page \in Pages
  /\ img \in [DOMAIN page.images -> ImgStates]
  /\ run = [r \in Runs |-> RunIdle]
  /\ chan = [c \in Clicks |-> IF c = 1 THEN [state |-> "undefined"]
                              ELSE IF c = 2 THEN [state |-> "sent"] ELSE ChanNone]
  /\ timers = {}
  /\ api = [c \in Clicks |-> ApiIdle]
  /\ probe = ProbeIdle
  /\ ConfigInit

SpecReinjected == ReinjectedInit /\ [][EngineNext]_vars

\* The snapshot of any document at any location: the first click's capture
\* message is on its way to a page without canvas and img elements.
SnapshotInit ==
  /\ progressText = Shown(Msg.Extract)
  /\ errorText = Hidden(<<>>)
  /\ successText = Hidden(<<>>)
  /\ storage \in Saved
  /\ click = [c \in Clicks |-> IF c = 1 THEN ClickAtCapture ELSE ClickIdle]
  /\ injected = 1
  /\ page \in SnapshotPages
  /\ img = <<>>
  /\ run = [r \in Runs |-> RunIdle]
  /\ chan = [c \in Clicks |-> IF c = 1 THEN [state |-> "sent"] ELSE ChanNone]
  /\ timers = {}
  /\ api = [c \in Clicks |-> ApiIdle]
  /\ probe = ProbeIdle
  /\ ConfigInit

SnapshotNext == \E c \in Clicks : EngineReceive(c)

SpecSnapshot == SnapshotInit /\ [][SnapshotNext]_vars

\* The configuration handlers of the popup, together with one capture click on
\* an empty page.
ConfigNext ==
  \/ LoadConfigSettles
  \/ \E k \in SaveIds : SaveClick(k) \/ StorageSetSettles(k)
  \/ \E k \in CheckIds : CheckStorageGetSettles(k) \/ CheckProbeSettles(k) \/ CheckSettles(k)

CaptureFlow(c) ==
  \/ Click(c)
  \/ StorageGetSettles(c)
  \/ TabsQuerySettles(c)
  \/ ExecuteScriptSettles(c)
  \/ DeliveryFails(c)
  \/ CaptureSettles(c)
  \/ UploadSettles(c)
  \/ EngineReceive(c)
  \/ RelayReceive(c)
  \/ RelayUnreachable(c)
  \/ ApiFetchSettles(c)
  \/ ApiTextSettles(c)
  \/ ApiJsonSettles(c)

ConfigSystemInit == Init /\ page = EmptyPage

SpecConfig == ConfigSystemInit /\ [][ConfigNext]_vars

SpecConfigCapture == ConfigSystemInit /\ [][ConfigNext \/ CaptureFlow(1)]_vars

\* The worker: the first click's upload message is on its way to it.
EmptyBundle ==
  [success |-> TRUE, url |-> href(EmptyPage.location), domain |-> EmptyPage.location.hostname,
   title |-> "T", htmlSnapshot |-> snapshot(EmptyPage.outerHTML, EmptyPage.location),
   assets |-> <<>>]

RelayInit ==
  /\ progressText = Shown(Msg.Upload)
  /\ errorText = Hidden(<<>>)
  /\ successText = Hidden(<<>>)
  /\ storage \in Saved
  /\ click = [c \in Clicks |->
               IF c = 1 THEN [ClickAtCapture EXCEPT !.pc = "upload", !.apiMsgs = 1,
                                                    !.captureResult = EmptyBundle]
               ELSE ClickIdle]
  /\ injected = 1
  /\ page = EmptyPage
  /\ img = <<>>
  /\ run = [r \in Runs |-> IF r = <<1, 1>>
                           THEN [RunIdle EXCEPT !.pc = "done", !.i = 1, !.responses = 1]
                           ELSE RunIdle]
  /\ chan = [c \in Clicks |-> IF c = 1 THEN [state |-> "replied", reply |-> EmptyBundle]
                              ELSE ChanNone]
  /\ timers = {}
  /\ api = [c \in Clicks |->
             IF c = 1
             THEN [ApiIdle EXCEPT !.pc = "sent"] @@
                  [endpoint |-> Endpoint1,
                   payload |-> [user_id |-> UserId1, source_url |-> EmptyBundle.url,
                                domain |-> EmptyBundle.domain, title |-> EmptyBundle.title,
                                html_snapshot |-> EmptyBundle.htmlSnapshot,
                                assets |-> <<>>]]
             ELSE ApiIdle]
  /\ probe = ProbeIdle
  /\ ConfigInit

ProbeNext == ProbeStart \/ ProbeSettles

SpecRelay == RelayInit /\ [][RelayNext \/ ProbeNext]_vars


\* ------------------------------------------------------------------ claims
FinishedClick(c) == click[c].pc \in {"done", "rejected"}
AllSettled ==
  /\ \E c \in Clicks : FinishedClick(c)
  /\ \A c \in Clicks : click[c].pc = "idle" \/ FinishedClick(c)

\* C1: once every step of every capture click has settled, the status display
\* shows exactly one of the error and success texts and no progress text,
\* whichever step failed.
C1_TerminalDisplay ==
  AllSettled => /\ progressText.hidden
                /\ errorText.hidden # successText.hidden

\* C2: a non-success HTTP status s with body text b makes sendToApi fail with a
\* message that contains s and the first 100 characters of b, for every b.
C2_HttpErrorMessage ==
  \A c \in Clicks :
    (api[c].pc = "done" /\ api[c].bodyRead) =>
      /\ ~api[c].answer.success
      /\ Includes(api[c].answer.error, NumToStr(api[c].status))
      /\ Includes(api[c].answer.error, Substring0(api[c].body, BodyLimit))

ProbeRejected == probe.pc = "done" /\ probe.fetch = Rejected

\* C3 (as stated): when the probe's fetch rejects, checkApiStatus reports 'failed'.
C3_RejectedProbeFailed == ProbeRejected => probe.status = "failed"

\* C3 (amended): when the probe's fetch rejects, checkApiStatus reports 'unknown'.
C3_RejectedProbeUnknown == ProbeRejected => probe.status = "unknown"

C3_Witness == ProbeRejected /\ probe.status = "unknown"


Settled(r) == run[r].pc \in {"done", "failed"}
Started(r) == run[r].pc # "none"

SuccessKeys == {"success", "url", "domain", "title", "htmlSnapshot", "assets"}
FailureKeys == {"success", "error"}
WellFormedReply(reply) ==
  \/ DOMAIN reply = SuccessKeys /\ reply.success
  \/ DOMAIN reply = FailureKeys /\ ~reply.success

\* C4: every capture message the engine receives is answered exactly once,
\* with a success bundle or with { success: false, error }, given that every
\* load wait and image fetch settles: each listener run calls sendResponse once,
\* when it settles and not before, every run settles, and the channel carries
\* one well-formed answer.
C4_AnsweredOnce ==
  /\ [](\A r \in Runs : /\ run[r].responses = (IF Settled(r) THEN 1 ELSE 0)
                        /\ Settled(r) => chan[r[1]].state = "replied")
  /\ [](\A c \in Clicks : chan[c].state = "replied" => WellFormedReply(chan[c].reply))
  /\ (\E c \in Clicks : chan[c].state = "sent")
       ~> (\A c \in Clicks : chan[c].state \in {"none", "replied"}
             /\ \A r \in Runs : Started(r) => run[r].responses = 1)

C4_Witness ==
  \E r \in Runs : /\ run[r].responses = 1
                  /\ run[r].waited # {}
                  /\ chan[r[1]].state = "replied"

HasAsset(assets, type, el) ==
  \E n \in DOMAIN assets : assets[n].type = type /\ assets[n].el = el

\* C5: per-element faults never abort the capture. A run fails only when the
\* snapshot construction throws; a run that ends has gone through every canvas
\* and every image, answers with a success bundle, and holds the asset of
\* every sound canvas and of every loaded inline image, whatever faults their
\* siblings had.
C5_FaultsDoNotAbort ==
  \A r \in Runs :
    /\ run[r].pc = "failed" => ~page.hasRoot
    /\ run[r].pc = "done" =>
         /\ run[r].canvasesDone = Len(page.canvases)
         /\ run[r].i = Len(page.images) + 1
         /\ \A k \in DOMAIN page.canvases :
              (page.canvases[k].width # 0 /\ page.canvases[k].height # 0
                 /\ ~page.canvases[k].tainted)
              => HasAsset(run[r].assets, "canvas_chart", k)
         /\ \A i \in DOMAIN page.images :
              (isBase64(page.images[i]) /\ i \notin run[r].waited)
              => HasAsset(run[r].assets, "image", i)

\* a run ended although a canvas was tainted and an image it waited for broke
C5_Witness ==
  \E r \in Runs :
    /\ run[r].pc = "done"
    /\ \E k \in DOMAIN page.canvases : page.canvases[k].tainted
    /\ \E i \in run[r].waited : img[i].size = BrokenSize
    /\ run[r].assets # <<>>

\* canvases first, and within each kind in document order
Ordered(assets) ==
  \A m, n \in DOMAIN assets :
    m < n => /\ assets[m].type = "image" => assets[n].type = "image"
             /\ assets[m].type = assets[n].type => assets[m].el < assets[n].el

\* C9: the asset sequence lists the canvas assets in document order, then the
\* image assets in document order, whatever the order in which the images
\* finished loading or their fetches completed; the bundle carries that sequence.
C9_DocumentOrder ==
  /\ \A r \in Runs : Ordered(run[r].assets)
  /\ \A c \in Clicks :
       (chan[c].state = "replied" /\ chan[c].reply.success) =>
         /\ Ordered(chan[c].reply.assets)
         /\ \E r \in Runs : r[1] = c /\ run[r].pc = "done"
                            /\ run[r].assets = chan[c].reply.assets

\* a bundle of a canvas and two images, the second image loaded before the first
C9_Witness ==
  \E r \in Runs :
    /\ run[r].pc = "done"
    /\ Len(run[r].assets) = 3
    /\ run[r].waited = {1}
    /\ chan[r[1]].state = "replied"

InProgress(r, i) == run[r].pc \in {"wait", "fetch"} /\ run[r].i = i

\* C10 (as stated): the waits of not-yet-loaded images do not block each other:
\* while a run waits for, or fetches, an earlier image, its wait for every later
\* image that has not loaded has started.
C10_WaitsIndependent ==
  \A r \in Runs : \A i, j \in DOMAIN page.images :
    (InProgress(r, i) /\ i < j /\ ~img[j].complete) => j \in run[r].waited

\* C10 (amended): within one capture the images are handled one at a time in
\* document order: while a run waits for, or fetches, an image, it has started
\* no wait for any later image.
C10_WaitsSequential ==
  \A r \in Runs : \A i, j \in DOMAIN page.images :
    (InProgress(r, i) /\ i < j) => j \notin run[r].waited

\* a run is held by an earlier image while a later image has not loaded
C10_Witness ==
  \E r \in Runs : \E i, j \in DOMAIN page.images :
    InProgress(r, i) /\ i < j /\ ~img[j].complete


ReadConfig(c) == click[c].pc \notin {"idle", "storageGet", "rejected"}

\* C6: a capture click that finds no userId persisted shows the error and goes
\* no further: no tab query, no injection, no capture message, no upload message.
C6_NoUserIdShortCircuit ==
  /\ [](\A c \in Clicks :
          (ReadConfig(c) /\ Falsy(click[c].userId)) =>
            /\ click[c].pc = "done" /\ click[c].shown = "error"
            /\ click[c].tabQueries = 0 /\ click[c].injections = 0
            /\ click[c].captureMsgs = 0 /\ click[c].apiMsgs = 0
            /\ chan[c] = ChanNone /\ api[c] = ApiIdle)
  /\ [][\A c \in Clicks :
          (click[c].pc = "storageGet" /\ ReadConfig(c)' /\ Falsy(storage.userId))
          => (errorText' = Shown(Msg.NoUserId) /\ progressText'.hidden
              /\ successText'.hidden /\ injected' = injected)]_vars

C6_Witness ==
  \E c \in Clicks : ReadConfig(c) /\ Falsy(click[c].userId) /\ ~errorText.hidden

\* C7: per click at most one capture message and at most one upload message
\* are sent; the upload message is sent only after a capture result that is
\* success-flagged and carries no error; the success message is shown only
\* after sendToApi has answered with success.
C7_SingleRound ==
  \A c \in Clicks :
    /\ click[c].captureMsgs <= 1
    /\ click[c].apiMsgs <= 1
    /\ api[c].pc # "none" <=> click[c].apiMsgs = 1
    /\ click[c].apiMsgs = 1 =>
         /\ click[c].captureMsgs = 1
         /\ chan[c].state = "replied"
         /\ chan[c].reply.success
         /\ Falsy(Field(chan[c].reply, "error"))
    /\ click[c].shown = "success" =>
         /\ click[c].apiMsgs = 1
         /\ api[c].pc = "done"
         /\ api[c].answer.success

C7_Witness ==
  \E c \in Clicks : click[c].shown = "success" /\ ~successText.hidden

Visible == { t \in {"progress", "error", "success"} :
               \/ t = "progress" /\ ~progressText.hidden
               \/ t = "error" /\ ~errorText.hidden
               \/ t = "success" /\ ~successText.hidden }

\* C8: whatever sequence of showProgress, showError, showSuccess and
\* clearFeedback calls is made, at most one of the three texts is visible, and
\* right after showProgress, showError or showSuccess exactly the text it sets
\* is visible.
C8_SingleSlot ==
  /\ [](Cardinality(Visible) <= 1)
  /\ [][/\ CallShowProgress => Visible' = {"progress"}
        /\ CallShowError => Visible' = {"error"}
        /\ CallShowSuccess => Visible' = {"success"}
        /\ CallClearFeedback => Visible' = {}]_vars

\* the error text is the visible one while the other two still hold a text
C8_Witness ==
  /\ Visible = {"error"}
  /\ progressText.textContent # <<>>
  /\ successText.textContent # <<>>

AssetsOf(r, i) == { n \in DOMAIN run[r].assets :
                      run[r].assets[n].type = "image" /\ run[r].assets[n].el = i }
Fetching(r, i) == run[r].pc = "fetch" /\ run[r].i = i

\* the Image asset of image i, without and with the fields a fetch adds
ImageAsset(i) ==
  [type |-> "image", width |-> img[i].size[1], height |-> img[i].size[2], el |-> i]

\* C11: for an image that has finished loading, processImage's result is: a
\* source starting with 'data:image/' gives one Image whose base64 is the source
\* string itself, without src_url and without a fetch; otherwise, with a natural
\* dimension below 300, no asset and no fetch; otherwise a fetch is made, and
\* once it has settled the asset carries base64 and src_url when it succeeded
\* and src_url without base64 when it failed. Every Image asset has at least
\* one of base64 and src_url.
C11_ImageResult ==
  \A r \in Runs :
    /\ \A i \in run[r].checked :
         LET src == page.images[i] IN
         /\ img[i].complete
         /\ isBase64(src) =>
              /\ i \notin run[r].fetched
              /\ \E n \in DOMAIN run[r].assets :
                   /\ AssetsOf(r, i) = {n}
                   /\ run[r].assets[n] = ImageAsset(i) @@ [base64 |-> src]
         /\ (~isBase64(src) /\ (img[i].size[1] < MinImageSize \/ img[i].size[2] < MinImageSize)) =>
              /\ i \notin run[r].fetched
              /\ AssetsOf(r, i) = {}
         /\ (~isBase64(src) /\ img[i].size[1] >= MinImageSize /\ img[i].size[2] >= MinImageSize) =>
              /\ i \in run[r].fetched
              /\ Fetching(r, i) => AssetsOf(r, i) = {}
              /\ ~Fetching(r, i) =>
                   \E n \in DOMAIN run[r].assets :
                     /\ AssetsOf(r, i) = {n}
                     /\ run[r].assets[n] =
                          IF i \in run[r].inlined
                          THEN ImageAsset(i) @@ [base64 |-> Base64Of(src), src_url |-> src]
                          ELSE ImageAsset(i) @@ [src_url |-> src]
    /\ \A n \in DOMAIN run[r].assets :
         run[r].assets[n].type = "image" =>
           ("base64" \in DOMAIN run[r].assets[n] \/ "src_url" \in DOMAIN run[r].assets[n])

\* a finished run that kept an inline image and fetched a large remote one
C11_Witness ==
  \E r \in Runs : \E i, j \in run[r].checked :
    /\ run[r].pc = "done"
    /\ isBase64(page.images[i]) /\ AssetsOf(r, i) # {}
    /\ j \in run[r].fetched /\ AssetsOf(r, j) # {}

Waiting(r, i) == run[r].pc = "wait" /\ run[r].i = i
LoadEvent(i) == ~img[i].complete /\ img'[i].complete /\ img'[i].size \in LoadedSizes
ErrorEvent(i) == ~img[i].complete /\ img'[i].complete /\ img'[i].size = BrokenSize
TimerEvent(r, i) == <<r, i>> \in timers /\ <<r, i>> \notin timers'

\* C12: a pass that waits for an image goes by the first of load, load-error
\* and its 5-second timer: on load the image reaches the inclusion check; on
\* load-error or the timer the pass leaves the image without an asset and does
\* not fail; signals that come after the wait has ended change nothing in the
\* pass; an image whose wait ended without load never gets an asset.
C12_WaitRace ==
  /\ [][\A r \in Runs : \A i \in DOMAIN page.images :
          /\ (Waiting(r, i) /\ LoadEvent(i)) => i \in run'[r].checked
          /\ (Waiting(r, i) /\ (ErrorEvent(i) \/ TimerEvent(r, i))) =>
               /\ ~Waiting(r, i)'
               /\ i \notin run'[r].checked
               /\ run'[r].pc # "failed"
          /\ (~Waiting(r, i) /\ i \in run[r].waited
                /\ (LoadEvent(i) \/ ErrorEvent(i) \/ TimerEvent(r, i))) =>
               run'[r] = run[r]]_vars
  /\ [](\A r \in Runs : \A i \in run[r].waited :
          i \notin run[r].checked => AssetsOf(r, i) = {})

CanvasAssets(r, k) == { n \in DOMAIN run[r].assets :
                          run[r].assets[n].type = "canvas_chart" /\ run[r].assets[n].el = k }

\* C13: once a pass has gone through the canvases, a canvas has an asset iff its
\* width and height are both non-zero and toDataURL did not raise (it is not
\* tainted); it then has exactly one, and a zero-dimension or tainted canvas has
\* none; every CanvasChart asset has width > 0, height > 0 and a base64 value.
C13_CanvasEmission ==
  \A r \in Runs :
    /\ (Started(r) /\ page.hasRoot) =>
         \A k \in DOMAIN page.canvases :
           LET canvas == page.canvases[k] IN
           IF canvas.width # 0 /\ canvas.height # 0 /\ ~canvas.tainted
           THEN Cardinality(CanvasAssets(r, k)) = 1
           ELSE CanvasAssets(r, k) = {}
    /\ \A n \in DOMAIN run[r].assets :
         run[r].assets[n].type = "canvas_chart" =>
           /\ run[r].assets[n].width > 0
           /\ run[r].assets[n].height > 0
           /\ "base64" \in DOMAIN run[r].assets[n]
           /\ run[r].assets[n].base64 = ToDataURL(run[r].assets[n].el)

\* a finished pass that holds the asset of a sound canvas
C13_Witness ==
  \E r \in Runs : \E k \in DOMAIN page.canvases :
    /\ run[r].pc = "done"
    /\ page.canvases[k] = OkCanvas
    /\ CanvasAssets(r, k) # {}

\* an opening tag named name (whatever the case) starts at position k of html
TagAt(html, name, k) ==
  /\ k + Len(name) + 1 <= Len(html)
  /\ html[k] = "<"
  /\ \A n \in 1..Len(name) : Lower(html[k + n]) = name[n]
  /\ html[k + Len(name) + 1] \in {">", " ", "/"}
Tags(html, name) == { k \in 1..Len(html) : TagAt(html, name, k) }
TagEnd(html, k) == Min({ e \in k..Len(html) : html[e] = ">" })

\* the snapshots the engine has answered with
Snapshots == { chan[c].reply.htmlSnapshot :
                c \in { d \in Clicks : chan[d].state = "replied" /\ chan[d].reply.success } }

\* '<base href="' href '">' where href is the location without query and fragment
BaseDirectives(location) ==
  { <<"<","b","a","s","e"," ","h","r","e","f","=","\"">> \o h \o <<"\"",">">> :
      h \in { b \in {baseHref(l) : l \in Locations} :
                b \o location.search \o location.hash = href(location) } }

\* C14: the snapshot of a document that has a head-opening tag and no base tag is
\* the document with one base tag put right after (on the line after) the first
\* head-opening tag, its href the location's scheme://host/path without query and
\* fragment; the snapshot has exactly one base tag and is otherwise the document.
C14_BaseInserted ==
  \A snap \in Snapshots :
    LET doc == page.outerHTML IN
    (Tags(doc, HeadName) # {} /\ Tags(doc, BaseName) = {}) =>
      LET e == TagEnd(doc, Min(Tags(doc, HeadName))) IN
      /\ \E directive \in BaseDirectives(page.location) :
           snap = SubSeq(doc, 1, e) \o <<"\n">> \o directive \o SubSeq(doc, e + 1, Len(doc))
      /\ Cardinality(Tags(snap, BaseName)) = 1

\* C15: the snapshot of a document that already has a base tag is the document
\* itself: no base tag is added, removed, moved or altered.
C15_BaseKept ==
  \A snap \in Snapshots :
    Tags(page.outerHTML, BaseName) # {} => snap = page.outerHTML

\* the engine answered for a document with a head and an upper-case base tag
C15_Witness ==
  /\ Snapshots # {}
  /\ Tags(page.outerHTML, HeadName) # {}
  /\ \E k \in Tags(page.outerHTML, BaseName) : page.outerHTML[k + 1] = "B"

\* C16: checkApiStatus returns 'connected' exactly when its fetch resolved with
\* a response whose status is in 200..299 or is 405, and 'unknown' when the fetch
\* gave no response or the response has any other status.
C16_ProbeResult ==
  probe.pc = "done" =>
    IF /\ probe.fetch.type = "response"
       /\ \/ probe.fetch.status \in 200..299
          \/ probe.fetch.status = 405
    THEN probe.status = "connected"
    ELSE probe.status = "unknown"

\* the probe was answered 405 Method Not Allowed
C16_Witness ==
  /\ probe.pc = "done"
  /\ probe.fetch = Response(405)
  /\ probe.status = "connected"

NonEmpty(v) == v # Undefined /\ v # <<>>

\* text from its first to its last non-blank character
Core(text) ==
  LET solid == { n \in 1..Len(text) : text[n] # " " }
  IN IF solid = {} THEN <<>>
     ELSE SubSeq(text, Min(solid), CHOOSE n \in solid : \A m \in solid : m <= n)

\* an http(s) URL with something after '://'
WellFormedUrl(text) ==
  \E scheme \in { <<"h","t","t","p",":","/","/">>, <<"h","t","t","p","s",":","/","/">> } :
    StartsWith(text, scheme) /\ Len(text) > Len(scheme)

ValidInputs(e, u) ==
  Core(e) # <<>> /\ WellFormedUrl(Core(e)) /\ Core(u) # <<>>

\* C17: the persisted configuration changes only in the step that completes the
\* storage write of a save whose trimmed endpoint is non-empty and a well-formed
\* URL and whose trimmed userId is non-empty, and it then holds those two
\* values; a save click whose inputs fail a check shows an error and starts no
\* write; no other step (capture click, config load, status check) changes it.
\* So the record is either never written or holds a non-empty endpoint and a
\* non-empty userId.
C17_ConfigWrites ==
  /\ [](storage = StorageEmpty
          \/ (NonEmpty(storage.apiEndpoint) /\ NonEmpty(storage.userId)))
  /\ [][/\ storage' # storage =>
             \E k \in SaveIds :
               /\ save[k].pc = "set" /\ save'[k].pc = "saved"
               /\ ValidInputs(save[k].apiEndpoint, save[k].userId)
               /\ storage' = [apiEndpoint |-> save[k].apiEndpoint, userId |-> save[k].userId]
        /\ \A k \in SaveIds :
             (save[k].pc = "idle" /\ save'[k].pc # "idle") =>
               IF ValidInputs(form'.apiEndpointInput, form'.userIdInput)
               THEN save'[k] = [pc |-> "set", apiEndpoint |-> Core(form'.apiEndpointInput),
                                userId |-> Core(form'.userIdInput)]
               ELSE /\ save'[k].pc = "invalid"
                    /\ ~errorText'.hidden
                    /\ storage' = storage]_vars

\* a save replaced the configuration of an earlier session, after the load, its
\* status check and a capture click had ended
C17_Witness ==
  /\ \E k \in SaveIds : save[k].pc = "saved" /\ storage.userId = save[k].userId
  /\ storage.userId # UserId1
  /\ check[0].pc = "done"
  /\ click[1].pc = "done"

InFlight(c) == click[c].pc \notin {"idle", "done", "rejected"}

\* C18: capture sequences are serialized: while one click's sequence is between
\* its click and its terminal display, no other click's sequence is under way.
C18_Serialized == Cardinality({ c \in Clicks : InFlight(c) }) <= 1

Passes(c) == { r \in Runs : r[1] = c /\ Started(r) }
RECURSIVE SumResponses(_)
SumResponses(R) ==
  IF R = {} THEN 0
  ELSE LET r == CHOOSE x \in R : TRUE IN run[r].responses + SumResponses(R \ {r})

\* C19: whatever number of clicks has re-injected the engine, a capture message
\* that was answered started exactly one capture pass in the page and
\* sendResponse was called exactly once for it.
C19_OnePassPerMessage ==
  \A c \in Clicks :
    chan[c].state = "replied" =>
      /\ Cardinality(Passes(c)) = 1
      /\ SumResponses(Passes(c)) = 1

EffectiveEndpoint ==
  IF Falsy(storage.apiEndpoint) THEN DEFAULT_API_ENDPOINT ELSE storage.apiEndpoint

\* the load handler has started its check, no write is pending (none will start
\* a check), and every check that was started has ended having read the endpoint
ChecksSettled ==
  /\ load = "done"
  /\ \A k \in SaveIds : save[k].pc # "set"
  /\ \A k \in CheckIds : /\ check[k].pc \in {"none", "done"}
                         /\ check[k].pc = "done" => check[k].endpoint # Undefined

\* C20: once every status check has settled, the indicator shows what a check
\* made for the persisted endpoint found, in whatever order the check of the
\* popup load and the check of a save completed.
C20_IndicatorCurrent ==
  ChecksSettled =>
    \E k \in CheckIds :
      /\ check[k].pc = "done"
      /\ check[k].endpoint = EffectiveEndpoint
      /\ statusIndicator = check[k].shown.className
      /\ statusText = check[k].shown.textContent

====
